---- MODULE Spec2Model ----
(***************************************************************************)
(* Model of the Tokenizer class of tokenize.js (src/src/tokenizer.ts):     *)
(* the input buffer `vals`, the output `tokens`, the `position` getter,    *)
(* next(), consume(...).while/until, _handleOrphan and the tokenize()      *)
(* loop that drives the per-element hook onNextToken.                      *)
(*                                                                         *)
(* JavaScript values are records [t, n, s] (type tag, number, string), so  *)
(* that truthiness, typeof and === are computed as the language computes   *)
(* them and falsy values (0, '') are ordinary elements and seeds.           *)
(*                                                                         *)
(* The class TokenizerError (src/src/error.ts) is modelled on strings as   *)
(* sequences of characters: prettyPrint, _formatError, _highlightErr, fork. *)
(***************************************************************************)
EXTENDS Integers, Sequences, FiniteSets, TLC

VARIABLES vals, tokens, length, curVal, pc, h, last, prev, errors, ecall, regex

\* The Tokenizer instance, the hook that calls it, and the patterns of a
\* StringTokenizer
tokVars == <<vals, tokens, length, curVal, pc, h, last, prev, regex>>

\* The TokenizerError objects, by reference, and the latest call made on one
errVars == <<errors, ecall>>

vars == <<vals, tokens, length, curVal, pc, h, last, prev, errors, ecall, regex>>

----------------------------------------------------------------------------
(* Bounds of the model *)

MaxLen == 3

MaxCount == 3

MaxTokens == 1

MaxReuse == 1

----------------------------------------------------------------------------
(* JavaScript values *)

Num(k) == [t |-> "number", n |-> k, s |-> ""]

Str(x) == [t |-> "string", n |-> 0, s |-> x]

Undefined == [t |-> "undefined", n |-> 0, s |-> ""]

This == [t |-> "object", n |-> 0, s |-> "this"]

\* ToBoolean: 0, '', null and undefined are falsy
Truthy(v) ==
    CASE v.t = "number" -> v.n # 0
      [] v.t = "string" -> v.s # ""
      [] v.t = "object" -> TRUE
      [] OTHER -> FALSE

\* a ?? b
Nullish(a, b) == IF a.t \in {"undefined", "null"} THEN b ELSE a

\* The element type T of the modelled instances is number | string
Elems == {Num(0), Str("a"), Str("b")}

OrphanBehavior == {"CONSUME_ORPHAN", "DISCARD_ORPHAN", "UNSHIFT_ORPHAN"}

\* Values a caller may pass as the seed `last` of consume(last, orphanBehavior)
Seeds == {Str(""), Str("a"), Str("DISCARD_ORPHAN")}

\* Predicates passed to while/until, as the set of values they accept:
\* () => true, () => false, v => v === 'a', v => v !== 'a'
Preds == {Elems, {}, {Str("a")}, Elems \ {Str("a")}}

\* Error messages a caller may pass to next
ErrMsgs == {Undefined, Str("boom")}

RECURSIVE SeqsUpTo(_, _)
SeqsUpTo(S, k) ==
    IF k = 0 THEN {<<>>}
    ELSE LET shorter == SeqsUpTo(S, k - 1)
         IN shorter \cup {Append(q, x) : q \in {r \in shorter : Len(r) = k - 1}, x \in S}

\* Array.prototype.shift: undefined on an empty array
Shift(vs) ==
    IF vs = <<>> THEN [v |-> Undefined, rest |-> <<>>]
    ELSE [v |-> Head(vs), rest |-> Tail(vs)]

----------------------------------------------------------------------------
(* Tokenizer *)

\* get position()
position == length - Len(tokens)

isOrphanBehavior(val) ==
    /\ Truthy(val)
    /\ val.t = "string"
    /\ (val.s = "CONSUME_ORPHAN" \/ val.s = "DISCARD_ORPHAN" \/ val.s = "UNSHIFT_ORPHAN")

\* The loop of next() with the test count <= 0 in place of count === 0
RECURSIVE nextLoopAtMost(_, _, _)
nextLoopAtMost(vs, count, errMsg) ==
    IF ~Truthy(Shift(vs).v)
    THEN [threw |-> TRUE, ret |-> Nullish(errMsg, Str("Unexpected end of input.")),
          vals |-> Shift(vs).rest]
    ELSE IF count - 1 <= 0
         THEN [threw |-> FALSE, ret |-> Shift(vs).v, vals |-> Shift(vs).rest]
         ELSE nextLoopAtMost(Shift(vs).rest, count - 1, errMsg)

\* The while (true) loop of next(): count is decremented, the front element is
\* removed, a falsy result throws, and the element is returned when count is 0.
RECURSIVE nextLoop(_, _, _)
nextLoop(vs, count, errMsg) ==
    LET c == count - 1
        sh == Shift(vs)
    IN IF ~Truthy(sh.v)
       THEN [threw |-> TRUE, ret |-> Nullish(errMsg, Str("Unexpected end of input.")),
             vals |-> sh.rest]
       ELSE IF c = 0
            THEN [threw |-> FALSE, ret |-> sh.v, vals |-> sh.rest]
            ELSE nextLoop(sh.rest, c, errMsg)

\* next(countOrErrMsg?, errMsgOrNull?)
next(vs, countOrErrMsg, errMsgOrNull) ==
    IF countOrErrMsg.t = "number"
    THEN nextLoop(vs, countOrErrMsg.n, errMsgOrNull)
    ELSE nextLoop(vs, 1, countOrErrMsg)

\* args.forEach of consume: an argument that is an orphan behaviour sets the
\* policy, any other argument becomes lastToken
RECURSIVE consumeArgs(_, _, _)
consumeArgs(args, orphanBehavior, lastToken) ==
    IF args = <<>> THEN [orphanBehavior |-> orphanBehavior, lastToken |-> lastToken]
    ELSE IF isOrphanBehavior(Head(args))
         THEN consumeArgs(Tail(args), Head(args).s, lastToken)
         ELSE consumeArgs(Tail(args), orphanBehavior, Head(args))

\* consume without the lookahead `val ??= this.next()`: the handle is returned
\* with val undefined and vals untouched
consumeLazy(vs, args) ==
    [threw |-> FALSE,
     thrown |-> Undefined,
     vals |-> vs,
     val |-> Undefined,
     elms |-> IF Truthy(consumeArgs(args, "UNSHIFT_ORPHAN", Undefined).lastToken)
              THEN <<consumeArgs(args, "UNSHIFT_ORPHAN", Undefined).lastToken>> ELSE <<>>,
     orphanBehavior |-> consumeArgs(args, "UNSHIFT_ORPHAN", Undefined).orphanBehavior]

\* consume(...args): the closure state of the returned handle
consume(vs, args) ==
    LET a == consumeArgs(args, "UNSHIFT_ORPHAN", Undefined)
        nx == next(vs, Undefined, Undefined)
    IN [threw |-> nx.threw,
        thrown |-> nx.ret,
        vals |-> nx.vals,
        val |-> IF nx.threw THEN Undefined ELSE nx.ret,
        elms |-> IF Truthy(a.lastToken) THEN <<a.lastToken>> ELSE <<>>,
        orphanBehavior |-> a.orphanBehavior]

\* _handleOrphan with every policy treated as DISCARD_ORPHAN
handleOrphanDiscard(vs, elms, elm, orphanBehavior) == [elms |-> elms, vals |-> vs]

\* _handleOrphan without the `return elms` of the case CONSUME_ORPHAN: the
\* switch falls through to the unshift, and the orphan is both appended and
\* put back
handleOrphanFallThrough(vs, elms, elm, orphanBehavior) ==
    IF Truthy(elm)
    THEN CASE orphanBehavior = "CONSUME_ORPHAN" ->
                [elms |-> Append(elms, elm), vals |-> <<elm>> \o vs]
           [] orphanBehavior = "DISCARD_ORPHAN" -> [elms |-> elms, vals |-> vs]
           [] orphanBehavior = "UNSHIFT_ORPHAN" -> [elms |-> elms, vals |-> <<elm>> \o vs]
    ELSE [elms |-> elms, vals |-> vs]

\* _handleOrphan(elms, elm, orphanBehavior)
handleOrphan(vs, elms, elm, orphanBehavior) ==
    IF Truthy(elm)
    THEN CASE orphanBehavior = "CONSUME_ORPHAN" -> [elms |-> Append(elms, elm), vals |-> vs]
           [] orphanBehavior = "DISCARD_ORPHAN" -> [elms |-> elms, vals |-> vs]
           [] orphanBehavior = "UNSHIFT_ORPHAN" -> [elms |-> elms, vals |-> <<elm>> \o vs]
    ELSE [elms |-> elms, vals |-> vs]

\* while (val && whle(val)) { elms.push(val); val = this.vals.shift(); }
RECURSIVE whileLoop(_, _, _, _)
whileLoop(vs, val, elms, whle) ==
    IF Truthy(val) /\ val \in whle
    THEN LET sh == Shift(vs) IN whileLoop(sh.rest, sh.v, Append(elms, val), whle)
    ELSE [vals |-> vs, val |-> val, elms |-> elms]

\* The loop of until written without the negation: while (val && until(val))
untilLoopNotNegated(vs, val, elms, until) == whileLoop(vs, val, elms, until)

\* while (val && !until(val)) { elms.push(val); val = this.vals.shift(); }
RECURSIVE untilLoop(_, _, _, _)
untilLoop(vs, val, elms, until) ==
    IF Truthy(val) /\ ~(val \in until)
    THEN LET sh == Shift(vs) IN untilLoop(sh.rest, sh.v, Append(elms, val), until)
    ELSE [vals |-> vs, val |-> val, elms |-> elms]

\* Consume.while: the loop, then _handleOrphan. lp is the state at loop exit.
consumeWhile(vs, val, elms, orphanBehavior, whle) ==
    LET lp == whileLoop(vs, val, elms, whle)
        ho == handleOrphan(lp.vals, lp.elms, lp.val, orphanBehavior)
    IN [vals |-> ho.vals, val |-> lp.val, elms |-> ho.elms, exitVals |-> lp.vals]

\* Consume.until: the loop, then _handleOrphan
consumeUntil(vs, val, elms, orphanBehavior, until) ==
    LET lp == untilLoop(vs, val, elms, until)
        ho == handleOrphan(lp.vals, lp.elms, lp.val, orphanBehavior)
    IN [vals |-> ho.vals, val |-> lp.val, elms |-> ho.elms, exitVals |-> lp.vals]

\* The expression this.consume(...args).while(p) or .until(p) evaluated on a
\* buffer vs: it raises when the lookahead fetch of consume raises
consumeThen(vs, args, op, p) ==
    LET c == consume(vs, args)
        r == IF op = "while"
             THEN consumeWhile(c.vals, c.val, c.elms, c.orphanBehavior, p)
             ELSE consumeUntil(c.vals, c.val, c.elms, c.orphanBehavior, p)
    IN [threw |-> c.threw,
        vals |-> IF c.threw THEN c.vals ELSE r.vals,
        elms |-> IF c.threw THEN <<>> ELSE r.elms,
        exitVal |-> IF c.threw THEN Undefined ELSE r.val,
        exitVals |-> IF c.threw THEN c.vals ELSE r.exitVals]

----------------------------------------------------------------------------
(* State machine: one Tokenizer instance and the hook that calls it *)

\* The record of the latest call: its arguments, the state it started from and
\* its outcome. For while/until, `chained` says that the call directly follows
\* the consume(...) that returned its handle, as in consume(...).while(p); args
\* and buffer are then the arguments of that consume and vals before it.
NoCall ==
    [op |-> "new", threw |-> FALSE, ret |-> Undefined, acc |-> <<>>,
     count |-> 0, args |-> <<>>, pred |-> {}, chained |-> FALSE, buffer |-> <<>>,
     preVals |-> <<>>, preTokens |-> <<>>, preLength |-> 0,
     preVal |-> Undefined, preElms |-> <<>>,
     exitVal |-> Undefined, exitVals |-> <<>>, exitPosition |-> 0]

\* What a next() call keeps of the while/until call it directly follows
NoLoop ==
    [op |-> "none", chained |-> FALSE, orphanBehavior |-> "UNSHIFT_ORPHAN", pred |-> {},
     exitVal |-> Undefined, exitVals |-> <<>>, exitPosition |-> 0]

\* The hook holds no handle. It holds the one returned by its latest consume
\* while it calls while/until on it, and drops it at its next other call.
NoHandle ==
    [live |-> FALSE, val |-> Undefined, elms |-> <<>>, orphanBehavior |-> "UNSHIFT_ORPHAN",
     calls |-> 0]

\* No TokenizerError has been constructed and no call made on one
NoErrCall ==
    [op |-> "none", self |-> 0, ret |-> 0, out |-> <<>>, message |-> <<>>,
     position |-> <<>>, writes |-> 0]

\* The instance is not a StringTokenizer: it has no patterns
NoRegex == [whitespace |-> {}, word |-> {}, number |-> {}, calls |-> 0]

\* constructor(vals)
Init ==
    /\ vals \in SeqsUpTo(Elems, MaxLen)
    /\ length = Len(vals)
    /\ tokens = <<>>
    /\ curVal = Undefined
    /\ pc = "idle"
    /\ h = NoHandle
    /\ last = NoCall
    /\ prev = NoLoop
    /\ errors = <<>>
    /\ ecall = NoErrCall
    /\ regex = NoRegex

\* The hook onNextToken is running: it may call next, consume, while, until
\* and push tokens
Callable == pc = "hook"

\* tokenize() with a try/catch around the hook that swallows the failure
AfterThrowCaught(threw) == pc

\* A failure raised inside the hook propagates out of tokenize()
AfterThrow(threw) == IF threw THEN "failed" ELSE pc

Before(op) ==
    [NoCall EXCEPT !.op = op, !.preVals = vals, !.preTokens = tokens,
                   !.preLength = length]

\* The loop of tokenize() reading the front element without removing it:
\* while ((this._val = this.vals[0]))
TokenizeLoopPeek ==
    /\ curVal' = Shift(vals).v
    /\ pc' = IF Truthy(Shift(vals).v) THEN "hook" ELSE "returned"
    /\ last' = [Before("tokenize") EXCEPT
                  !.ret = IF Truthy(Shift(vals).v) THEN Undefined ELSE This]
    /\ h' = NoHandle
    /\ prev' = NoLoop
    /\ UNCHANGED <<vals, tokens, length, errors, ecall, regex>>

\* One iteration of the loop of tokenize(): while ((this._val = this.vals.shift()))
\* The handle of the hook invocation that returned is out of scope.
TokenizeLoop ==
    LET sh == Shift(vals)
    IN /\ curVal' = sh.v
       /\ vals' = sh.rest
       /\ pc' = IF Truthy(sh.v) THEN "hook" ELSE "returned"
       /\ last' = [Before("tokenize") EXCEPT
                     !.ret = IF Truthy(sh.v) THEN Undefined ELSE This]
       /\ h' = NoHandle
       /\ prev' = NoLoop
       /\ UNCHANGED <<tokens, length, errors, ecall, regex>>

\* tokenize() is called
Tokenize ==
    /\ pc = "idle"
    /\ TokenizeLoop

\* onNextToken returns and tokenize() goes round its loop
HookReturn ==
    /\ pc = "hook"
    /\ TokenizeLoop

\* this.next(countOrErrMsg, errMsgOrNull)
CallNext(countOrErrMsg, errMsgOrNull) ==
    /\ Callable
    /\ LET r == next(vals, countOrErrMsg, errMsgOrNull)
       IN /\ vals' = r.vals
          /\ pc' = AfterThrow(r.threw)
          /\ last' = [Before("next") EXCEPT
                        !.count = IF countOrErrMsg.t = "number" THEN countOrErrMsg.n ELSE 1,
                        !.threw = r.threw, !.ret = r.ret]
    /\ prev' = IF last.op \in {"while", "until"}
               THEN [op |-> last.op, chained |-> last.chained,
                     orphanBehavior |-> h.orphanBehavior, pred |-> last.pred,
                     exitVal |-> last.exitVal, exitVals |-> last.exitVals,
                     exitPosition |-> last.exitPosition]
               ELSE NoLoop
    /\ h' = NoHandle
    /\ UNCHANGED <<tokens, length, curVal, errors, ecall, regex>>

\* this.consume(...args)
CallConsume(args) ==
    /\ Callable
    /\ LET r == consume(vals, args)
       IN /\ vals' = r.vals
          /\ pc' = AfterThrow(r.threw)
          /\ h' = IF r.threw THEN NoHandle
                  ELSE [live |-> TRUE, val |-> r.val, elms |-> r.elms,
                        orphanBehavior |-> r.orphanBehavior, calls |-> 0]
          /\ last' = [Before("consume") EXCEPT
                        !.args = args, !.threw = r.threw,
                        !.ret = IF r.threw THEN r.thrown ELSE Undefined]
    /\ prev' = NoLoop
    /\ UNCHANGED <<tokens, length, curVal, errors, ecall, regex>>

AfterLoop(op, p, r) ==
    /\ vals' = r.vals
    /\ h' = [h EXCEPT !.val = r.val, !.elms = r.elms, !.calls = @ + 1]
    /\ last' = [Before(op) EXCEPT
                  !.pred = p, !.acc = r.elms, !.preVal = h.val, !.preElms = h.elms,
                  !.chained = (last.op = "consume"),
                  !.args = IF last.op = "consume" THEN last.args ELSE <<>>,
                  !.buffer = IF last.op = "consume" THEN last.preVals ELSE <<>>,
                  !.exitVal = r.val, !.exitVals = r.exitVals, !.exitPosition = position]
    /\ prev' = NoLoop
    /\ UNCHANGED <<tokens, length, curVal, pc, errors, ecall, regex>>

\* while/until may be called on the handle the hook holds: once, and up to
\* MaxReuse times more while the buffer is shorter than the input (each
\* further call can put the same orphan back again)
CanLoop ==
    /\ Callable
    /\ h.live
    /\ (h.calls = 0 \/ (h.calls <= MaxReuse /\ Len(vals) < length))

\* handle.while(whle) on the handle returned by the latest consume
CallWhile(whle) ==
    /\ CanLoop
    /\ AfterLoop("while", whle, consumeWhile(vals, h.val, h.elms, h.orphanBehavior, whle))

\* handle.until(until)
CallUntil(until) ==
    /\ CanLoop
    /\ AfterLoop("until", until, consumeUntil(vals, h.val, h.elms, h.orphanBehavior, until))

\* this.tokens.push({ value, position: this.position })
PushToken(value) ==
    /\ Callable
    /\ Len(tokens) < MaxTokens
    /\ tokens' = Append(tokens, [value |-> value, position |-> position])
    /\ last' = Before("push")
    /\ prev' = NoLoop
    /\ h' = NoHandle
    /\ UNCHANGED <<vals, length, curVal, pc, errors, ecall, regex>>

\* A throw statement of the hook itself, as in throw this._baseError.fork(...)
HookThrow(e) ==
    /\ Callable
    /\ pc' = AfterThrow(TRUE)
    /\ last' = [Before("throw") EXCEPT !.threw = TRUE, !.ret = e]
    /\ h' = NoHandle
    /\ prev' = NoLoop
    /\ UNCHANGED <<vals, tokens, length, curVal, errors, ecall, regex>>

Counts == {Num(k) : k \in -1 .. MaxCount}

\* The argument lists of consume(), consume(policy), consume(last), consume(last, policy)
ConsumeArgs ==
    {<<>>}
    \cup {<<Str(ob)>> : ob \in OrphanBehavior}
    \cup {<<seed>> : seed \in Seeds}
    \cup {<<seed, Str(ob)>> : seed \in Seeds, ob \in OrphanBehavior}

Next ==
    \/ Tokenize
    \/ HookReturn
    \/ \E c \in Counts : CallNext(c, Undefined)
    \/ \E m \in ErrMsgs : CallNext(m, Undefined)
    \/ \E m \in ErrMsgs : CallNext(Num(MaxCount), m)
    \/ \E args \in ConsumeArgs : CallConsume(args)
    \/ \E whle \in Preds : CallWhile(whle)
    \/ \E until \in Preds : CallUntil(until)
    \/ PushToken(curVal)
    \/ HookThrow(Str("boom"))

Spec == Init /\ [][Next]_vars

\* tokenize() is called on an input of truthy elements, and every invocation
\* of the hook terminates: it cannot make calls for ever without returning
LiveInit == Init /\ \A i \in 1 .. Len(vals) : Truthy(vals[i])

LiveSpec == LiveInit /\ [][Next]_vars /\ WF_vars(Tokenize) /\ WF_vars(HookReturn)

----------------------------------------------------------------------------
(* End to end: a Tokenizer<string, Token> over the characters of a text,   *)
(* with a hook that recognises braces, colons, quoted strings and digit    *)
(* runs. In this specification last.buffer is the input of tokenize().     *)

MaxJsonLen == 3

JsonChars == {Str("{"), Str("\""), Str("a"), Str(":"), Str("1"), Str("}")}

\* [...'{"a":1}']
JsonText == <<Str("{"), Str("\""), Str("a"), Str("\""), Str(":"), Str("1"), Str("}")>>

\* val => /"/.test(val) and char => /\d/.test(char), as the sets they accept
IsQuote == {Str("\"")}

IsDigit == {Str("1")}

\* Array.prototype.join('') on an array of strings
RECURSIVE join(_)
join(elms) == IF elms = <<>> THEN "" ELSE Head(elms).s \o join(Tail(elms))

JsonInit ==
    /\ vals \in SeqsUpTo(JsonChars, MaxJsonLen) \cup {JsonText}
    /\ length = Len(vals)
    /\ tokens = <<>>
    /\ curVal = Undefined
    /\ pc = "idle"
    /\ h = NoHandle
    /\ last = [NoCall EXCEPT !.buffer = vals]
    /\ prev = NoLoop
    /\ errors = <<>>
    /\ ecall = NoErrCall
    /\ regex = NoRegex

JsonStep(op, threw) == [Before(op) EXCEPT !.buffer = last.buffer, !.threw = threw]

\* while ((this._val = this.vals.shift())) this.onNextToken(this._val)
JsonLoop ==
    LET sh == Shift(vals)
    IN /\ curVal' = sh.v
       /\ vals' = sh.rest
       /\ pc' = IF Truthy(sh.v) THEN "hook" ELSE "returned"
       /\ last' = JsonStep("tokenize", FALSE)
       /\ UNCHANGED <<tokens, length, h, prev, errors, ecall, regex>>

JsonTokenize ==
    /\ pc = "idle"
    /\ JsonLoop

JsonHookReturn ==
    /\ pc = "done"
    /\ JsonLoop

\* The hook pushes { value: word.join(''), position: this.position } for the
\* array returned by consume(...).while/until, unless consume raised
JsonPushRun(op, r) ==
    /\ vals' = r.vals
    /\ tokens' = IF r.threw THEN tokens
                 ELSE Append(tokens, [value |-> Str(join(r.elms)), position |-> position])
    /\ pc' = IF r.threw THEN "failed" ELSE "done"
    /\ last' = JsonStep(op, r.threw)
    /\ UNCHANGED <<length, curVal, h, prev, errors, ecall, regex>>

\* if (/\{|\}/.test(val)) ... if (/:/.test(val)) this.tokens.push({ value: val })
JsonPunct ==
    /\ pc = "hook"
    /\ curVal \in {Str("{"), Str("}"), Str(":")}
    /\ tokens' = Append(tokens, [value |-> curVal, position |-> position])
    /\ pc' = "done"
    /\ last' = JsonStep("push", FALSE)
    /\ UNCHANGED <<vals, length, curVal, h, prev, errors, ecall, regex>>

\* if (/"/.test(val)) this.consume('"', 'CONSUME_ORPHAN').until((val) => /"/.test(val))
JsonString ==
    /\ pc = "hook"
    /\ curVal \in IsQuote
    /\ JsonPushRun("until",
                   consumeThen(vals, <<Str("\""), Str("CONSUME_ORPHAN")>>, "until", IsQuote))

\* this.consume(firstChar).while((char) => this._numberRegEx.test(char))
JsonNumber ==
    /\ pc = "hook"
    /\ curVal \in IsDigit
    /\ JsonPushRun("while", consumeThen(vals, <<curVal>>, "while", IsDigit))

\* Any other character: the hook returns without a token
JsonSkip ==
    /\ pc = "hook"
    /\ curVal \notin {Str("{"), Str("}"), Str(":")} \cup IsQuote \cup IsDigit
    /\ pc' = "done"
    /\ last' = JsonStep("skip", FALSE)
    /\ UNCHANGED <<vals, tokens, length, curVal, h, prev, errors, ecall, regex>>

JsonNext ==
    \/ JsonTokenize
    \/ JsonHookReturn
    \/ JsonPunct
    \/ JsonString
    \/ JsonNumber
    \/ JsonSkip

JsonSpec == JsonInit /\ [][JsonNext]_vars

----------------------------------------------------------------------------
(* TokenizerError: strings are sequences of characters, an optional value  *)
(* (path?, position?, a raw that an untyped caller left undefined) is a *)
(* sequence of zero or one value.                                          *)

MaxRawLen == 2

MaxForks == 1

MaxWrites == 1

\* The characters of the raw texts: a letter, a tab and a line break
RawChars == {"a", "\t", "\n"}

\* [...'ab\tcd\nef']
TabText == <<"a", "b", "\t", "c", "d", "\n", "e", "f">>

\* [...'a\r\na']: a text with the line ends of a CRLF file
CrLfText == <<"a", "\r", "\n", "a">>

\* [...'a\naa\na']: a fault line between a line before and a line after
LinesText == <<"a", "\n", "a", "a", "\n", "a">>

Raws == SeqsUpTo(RawChars, MaxRawLen) \cup {TabText, CrLfText, LinesText}

\* path?: undefined, '' and 'p'
Paths == {<<>>, << <<>> >>, << <<"p">> >>}

\* 'SyntaxError'
SyntaxErrorLabel == <<"S", "y", "n", "t", "a", "x", "E", "r", "r", "o", "r">>

Digits == <<"0", "1", "2", "3", "4", "5", "6", "7", "8", "9">>

\* `${n}` for a non-negative integer n
RECURSIVE toString(_)
toString(n) ==
    IF n < 10 THEN <<Digits[n + 1]>>
    ELSE toString(n \div 10) \o <<Digits[(n % 10) + 1]>>

Min(a, b) == IF a < b THEN a ELSE b

Max(a, b) == IF a > b THEN a ELSE b

\* String.prototype.slice(start, end): a negative index counts from the end
slice(str, start, end) ==
    LET len == Len(str)
        from == IF start < 0 THEN Max(len + start, 0) ELSE Min(start, len)
        to == IF end < 0 THEN Max(len + end, 0) ELSE Min(end, len)
    IN SubSeq(str, from + 1, to)

\* String.prototype.substring(start, end): indices are clamped to 0..length
\* and swapped when start > end
substring(str, start, end) ==
    LET len == Len(str)
        a == Min(Max(start, 0), len)
        b == Min(Max(end, 0), len)
    IN SubSeq(str, Min(a, b) + 1, Max(a, b))

\* String.prototype.indexOf(char): -1 when char does not occur
indexOf(str, char) ==
    IF \E i \in 1 .. Len(str) : str[i] = char
    THEN (CHOOSE i \in 1 .. Len(str) :
            str[i] = char /\ \A j \in 1 .. i - 1 : str[j] # char) - 1
    ELSE -1

\* String.prototype.lastIndexOf(char)
lastIndexOf(str, char) ==
    IF \E i \in 1 .. Len(str) : str[i] = char
    THEN (CHOOSE i \in 1 .. Len(str) :
            str[i] = char /\ \A j \in i + 1 .. Len(str) : str[j] # char) - 1
    ELSE -1

\* A whitespace test with tabs taken for ordinary characters
isWhitespaceNoTab(char) == char \in {" ", "\n", "\r"}

\* /\s|\t/.test(char) and the whitespace that trim() removes
isWhitespace(char) == char \in {" ", "\t", "\n", "\r"}

\* String.prototype.trim()
RECURSIVE trim(_)
trim(str) ==
    IF str = <<>> THEN str
    ELSE IF isWhitespace(Head(str)) THEN trim(Tail(str))
    ELSE IF isWhitespace(str[Len(str)]) THEN trim(SubSeq(str, 1, Len(str) - 1))
    ELSE str

\* String.prototype.split(/\n/g)
RECURSIVE split(_, _)
split(str, char) ==
    LET i == indexOf(str, char)
    IN IF i = -1 THEN <<str>>
       ELSE <<SubSeq(str, 1, i)>> \o split(SubSeq(str, i + 2, Len(str)), char)

\* No decoration is registered: the module-level `colors` is undefined, so
\* every `if (colors)` and `colors ? ... : ...` takes the undecorated branch
colors == FALSE

\* colors.red(text), colors.blue(text), ...: a decoration wraps the text and
\* leaves its characters as they are
paint(text) == IF colors THEN <<"[">> \o text \o <<"]">> ELSE text

\* The character of the caret line under the character char of the fault line
caretChar(char) == IF isWhitespace(char) THEN char ELSE " "

\* _highlightErr(raw, position)
highlightErr(raw, pos) ==
    LET before0 == slice(raw, 0, pos)
        after0 == slice(raw, pos, Len(raw))
        beforeN == lastIndexOf(before0, "\n")
        afterN == indexOf(after0, "\n")
        errLnStart == substring(before0, beforeN + 1, Len(before0))
        errLnEnd == substring(after0, 0, afterN)
        before == substring(before0, 0, beforeN)
        after == substring(after0, afterN + 1, Len(after0))
        caret == [i \in 1 .. Len(errLnStart) |-> caretChar(errLnStart[i])]
                    \o paint(<<"^">>)
        prettyPrinted == before \o <<"\n">> \o errLnStart \o errLnEnd \o <<"\n">> \o caret
    IN [column |-> toString(Len(errLnStart)),
        row |-> toString(Len(split(before, "\n"))),
        prettyPrinted |-> IF Len(trim(after)) > 0
                          THEN prettyPrinted \o <<"\n">> \o after
                          ELSE prettyPrinted]

\* `${syntaxError}${colon}${message}`
plainHeader(message) == paint(SyntaxErrorLabel) \o paint(<<":", " ">>) \o paint(message)

\* _formatError that never prints the path
formatErrorNoPath(message, raw, pos, path) ==
    IF raw = <<>>
    THEN [message |-> message, prettyPrinted |-> <<>>]
    ELSE [message |-> plainHeader(message),
          prettyPrinted |-> <<highlightErr(raw[1], pos).prettyPrinted>>]

\* _formatError(message, raw, position, path): raw.slice raises a TypeError on
\* an undefined raw, and the catch returns { message }
formatError(message, raw, pos, path) ==
    IF raw = <<>>
    THEN [message |-> message, prettyPrinted |-> <<>>]
    ELSE LET hl == highlightErr(raw[1], pos)
         IN IF path = <<>> \/ path[1] = <<>>
            THEN [message |-> plainHeader(message), prettyPrinted |-> <<hl.prettyPrinted>>]
            ELSE [message |-> paint(path[1]) \o <<":">> \o paint(hl.row) \o <<":">>
                                \o paint(hl.column) \o <<" ", "-", " ">>
                                \o plainHeader(message),
                  prettyPrinted |-> <<hl.prettyPrinted>>]

\* prettyPrint() that returns the excerpt alone
prettyPrintNoHeader(err) ==
    LET f == formatError(err.message, err.raw, err.position, err.path)
    IN IF f.prettyPrinted # <<>> THEN f.prettyPrinted[1] ELSE <<>>

\* prettyPrint()
prettyPrint(err) ==
    LET f == formatError(err.message, err.raw, err.position, err.path)
    IN f.message \o (IF f.prettyPrinted # <<>> /\ f.prettyPrinted[1] # <<>>
                     THEN <<"\n", "\n">> \o f.prettyPrinted[1]
                     ELSE <<>>)

\* new TokenizerError(message, raw, position, path)
TokenizerError(message, raw, pos, path) ==
    [message |-> message, raw |-> raw, position |-> pos, path |-> path]

\* fork written with position || this.position
forkFalsyPosition(heap, self, message, pos) ==
    LET this == heap[self]
        at == IF pos # <<>> /\ pos[1] # 0 THEN pos[1] ELSE this.position
    IN [heap |-> Append(heap, TokenizerError(message, this.raw, at, this.path)),
        ret |-> Len(heap) + 1]

\* fork that updates the receiver and returns it
forkInPlace(heap, self, message, pos) ==
    LET this == heap[self]
        at == IF pos # <<>> THEN pos[1] ELSE this.position
    IN [heap |-> [heap EXCEPT ![self] = TokenizerError(message, this.raw, at, this.path)],
        ret |-> self]

\* fork(message, position?) on the object heap[self]: the new object is
\* allocated at the end of the heap and its reference returned
fork(heap, self, message, pos) ==
    LET this == heap[self]
        at == IF pos # <<>> THEN pos[1] ELSE this.position
    IN [heap |-> Append(heap, TokenizerError(message, this.raw, at, this.path)),
        ret |-> Len(heap) + 1]

\* The offsets a caller may give for a raw text: every index, and one before
\* and two past the text
Offsets(raw) == IF raw = <<>> THEN {0} ELSE -1 .. Len(raw[1]) + 1

\* const err = new TokenizerError('m', raw, position, path)
ErrInit ==
    /\ \E raw \in {<<r>> : r \in Raws} \cup {<<>>}, path \in Paths :
         \E pos \in Offsets(raw) :
            errors = <<TokenizerError(<<"m">>, raw, pos, path)>>
    /\ ecall = NoErrCall
    /\ vals = <<>>
    /\ length = 0
    /\ tokens = <<>>
    /\ curVal = Undefined
    /\ pc = "idle"
    /\ h = NoHandle
    /\ last = NoCall
    /\ prev = NoLoop
    /\ regex = NoRegex

ErrCall(op, self) == [NoErrCall EXCEPT !.op = op, !.self = self, !.writes = ecall.writes]

\* errors[self].prettyPrint()
ErrPrettyPrint(self) ==
    /\ ecall.op # "prettyPrint"
    /\ ecall' = [ErrCall("prettyPrint", self) EXCEPT !.out = prettyPrint(errors[self])]
    /\ UNCHANGED <<errors, tokVars>>

\* errors[self].fork(message, position?)
ErrFork(self, message, pos) ==
    /\ Len(errors) <= MaxForks
    /\ LET r == fork(errors, self, message, pos)
       IN /\ errors' = r.heap
          /\ ecall' = [ErrCall("fork", self) EXCEPT
                         !.ret = r.ret, !.message = message, !.position = pos]
    /\ UNCHANGED tokVars

\* errors[self].message = message, after a fork
ErrSetMessage(self, message) ==
    /\ Len(errors) > 1
    /\ ecall.writes < MaxWrites
    /\ errors' = [errors EXCEPT ![self].message = message]
    /\ ecall' = [ErrCall("setMessage", self) EXCEPT !.message = message, !.writes = @ + 1]
    /\ UNCHANGED tokVars

\* errors[self].position = position, after a fork
ErrSetPosition(self, pos) ==
    /\ Len(errors) > 1
    /\ ecall.writes < MaxWrites
    /\ errors' = [errors EXCEPT ![self].position = pos]
    /\ ecall' = [ErrCall("setPosition", self) EXCEPT
                   !.position = <<pos>>, !.writes = @ + 1]
    /\ UNCHANGED tokVars

\* The references of the objects constructed so far
Refs == 1 .. Len(errors)

ErrNext ==
    \/ \E self \in Refs : ErrPrettyPrint(self)
    \/ \E self \in Refs, at \in {<<>>, <<0>>, <<2>>} : ErrFork(self, <<"n">>, at)
    \/ \E self \in Refs : ErrSetMessage(self, <<"x">>)
    \/ \E self \in Refs : ErrSetPosition(self, 1)

ErrSpec == ErrInit /\ [][ErrNext]_vars

----------------------------------------------------------------------------
(* JSON round trip: the JsonTokenizer and MyJSON.parse of the test suite.  *)
(* A JSON value is [type, str, items]: a string has its characters in str, *)
(* an array or object its elements or members, in order, in items as       *)
(* [key, value]. A token is [key, type, kind, str, children, position]:    *)
(* key is optional, kind says what `value` holds (the characters str of a  *)
(* string or number, or the array children).                               *)

MaxMembers == 2

MaxElements == 1

\* The characters of keys and string values
Keys == {<<>>, <<"a">>}

Strings == {<<>>, <<"b">>}

StringValue(str) == [type |-> "string", str |-> str, items |-> <<>>]

ArrayValue(elements) ==
    [type |-> "array", str |-> <<>>,
     items |-> [i \in 1 .. Len(elements) |-> [key |-> <<>>, value |-> elements[i]]]]

ObjectValue(members) == [type |-> "object", str |-> <<>>, items |-> members]

\* The members of an object with up to k members, with distinct keys and
\* values from the set V
RECURSIVE Members(_, _)
Members(V, k) ==
    IF k = 0 THEN {<<>>}
    ELSE LET shorter == Members(V, k - 1)
         IN shorter \cup
            {Append(ms, [key |-> key, value |-> v]) :
                ms \in {m \in shorter : Len(m) = k - 1}, key \in Keys, v \in V}

DistinctKeys(members) ==
    \A i, j \in 1 .. Len(members) : members[i].key = members[j].key => i = j

\* Strings and arrays of strings
Leaves ==
    {StringValue(str) : str \in Strings}
        \cup {ArrayValue(elements) :
                elements \in SeqsUpTo({StringValue(str) : str \in Strings}, MaxElements)}

\* Objects with at most one member, a string or an array of strings
SmallObjects == {ObjectValue(members) : members \in Members(Leaves, 1)}

\* The objects of the round trip: their values are strings, arrays of strings
\* and nested objects
JsonObjects ==
    {ObjectValue(members) :
        members \in {ms \in Members(Leaves \cup SmallObjects, MaxMembers) : DistinctKeys(ms)}}

quote(str) == <<"\"">> \o str \o <<"\"">>

\* JSON.stringify(value), for strings that need no escaping
RECURSIVE stringify(_)
RECURSIVE stringifyItems(_, _)
stringify(value) ==
    CASE value.type = "string" -> quote(value.str)
      [] value.type = "array" -> <<"[">> \o stringifyItems(value.items, FALSE) \o <<"]">>
      [] value.type = "object" -> <<"{">> \o stringifyItems(value.items, TRUE) \o <<"}">>

stringifyItems(items, keyed) ==
    IF items = <<>> THEN <<>>
    ELSE (IF keyed THEN quote(Head(items).key) \o <<":">> ELSE <<>>)
            \o stringify(Head(items).value)
            \o (IF Tail(items) # <<>> THEN <<",">> ELSE <<>>)
            \o stringifyItems(Tail(items), keyed)

\* [...jsonString]
spread(str) == [i \in 1 .. Len(str) |-> Str(str[i])]

\* elms.join('') for an array of characters, as the sequence of its characters
joinChars(elms) == [i \in 1 .. Len(elms) |-> elms[i].s]

\* /\s/.test(value)
IsSpace == {Str(" ")}

NoToken ==
    [key |-> <<>>, type |-> "", kind |-> "string", str |-> <<>>, children |-> <<>>,
     position |-> 0]

\* A call of the tokenizer raised: vals is what it left
Raised(vs) == [threw |-> TRUE, vals |-> vs, word |-> <<>>, value |-> Undefined]

Returned(vs) == [Raised(vs) EXCEPT !.threw = FALSE]

\* const x = value; body(x): the value is computed once
Const(value, body(_)) == CHOOSE result \in {body(x) : x \in {value}} : TRUE

\* The array that consume(...).while/until returned, joined: .join('')
joined(r) == IF r.threw THEN Raised(r.vals) ELSE [Returned(r.vals) EXCEPT !.word = joinChars(r.elms)]

\* consumeWord(startToken = '"', endRegExp = /"/)
consumeWord(vs) ==
    Const(consumeThen(vs, <<Str("\""), Str("CONSUME_ORPHAN")>>, "until", IsQuote), joined)

\* consumeNumber(startNumber): the characters of the number
consumeNumber(vs, startNumber) ==
    Const(consumeThen(vs, <<startNumber, Str("CONSUME_ORPHAN")>>, "while", IsDigit), joined)

\* _consumeWhitespace(value)
RECURSIVE consumeWhitespace(_, _)
consumeWhitespace(vs, value) ==
    IF value \in IsSpace
    THEN Const(next(vs, Undefined, Undefined),
               LAMBDA nx : IF nx.threw THEN Raised(nx.vals)
                           ELSE consumeWhitespace(nx.vals, nx.ret))
    ELSE [Returned(vs) EXCEPT !.value = value]

\* this._consumeWhitespace(this.next())
nextNonSpace(vs) ==
    Const(next(vs, Undefined, Undefined),
          LAMBDA nx : IF nx.threw THEN Raised(nx.vals) ELSE consumeWhitespace(nx.vals, nx.ret))

\* The calls of _consumeInner in progress, innermost first: consumeObject,
\* consumeArray and consumeKeyValue call it recursively, and each call has its
\* endToken, its arrVals and the token that its caller will make of them
Frame(endToken, token) == [endToken |-> endToken, arrVals |-> <<>>, token |-> token]

\* consumeObject() and consumeArray(): { position, value: _consumeInner(...), type }
InnerFrame(open, key) ==
    Frame(IF open = Str("{") THEN Str("}") ELSE Str("]"),
          [NoToken EXCEPT !.key = key, !.position = position, !.kind = "array",
                          !.type = IF open = Str("{") THEN "object" ELSE "array"])

\* arrVals.push(token) in the innermost call
pushVal(stack, token) == [stack EXCEPT ![1].arrVals = Append(@, token)]

\* The state of the recursive descent: the buffer, the calls in progress and
\* the tokens returned to onNextToken
Descent(vs, stack, out, threw) == [vals |-> vs, stack |-> stack, out |-> out, threw |-> threw]

\* The token { key, value, position } of consumeKeyValue for a string (the
\* array of consumeWord joined) or a number (of consumeNumber)
keyedScalar(w, stack, out, key, kind) ==
    IF w.threw THEN Descent(w.vals, stack, out, TRUE)
    ELSE Descent(w.vals,
                 pushVal(stack, [NoToken EXCEPT !.key = <<key>>, !.position = position,
                                                !.kind = kind, !.str = w.word]),
                 out, FALSE)

\* consumeKeyValue(key), up to its call of consumeObject or consumeArray
consumeKeyValue(vs, stack, out, key) ==
    Const(nextNonSpace(vs),
          LAMBDA ws :
            IF ws.threw THEN Descent(ws.vals, stack, out, TRUE)
            ELSE IF ws.value \in {Str("{"), Str("[")}
            THEN Descent(ws.vals, <<InnerFrame(ws.value, <<key>>)>> \o stack, out, FALSE)
            ELSE IF ws.value \in IsQuote
            THEN keyedScalar(consumeWord(ws.vals), stack, out, key, "string")
            ELSE IF ws.value \in IsDigit
            THEN keyedScalar(consumeNumber(ws.vals, ws.value), stack, out, key, "number")
            ELSE Descent(ws.vals, stack, out, TRUE))

\* The branch val === '"' of _consumeInner: a key and its value, or a string
\* followed by something else than ':', which is put back
consumeQuoted(vs, stack, out) ==
    Const(consumeWord(vs),
          LAMBDA w :
            IF w.threw THEN Descent(w.vals, stack, out, TRUE)
            ELSE Const(nextNonSpace(w.vals),
                       LAMBDA ws :
                         IF ws.threw THEN Descent(ws.vals, stack, out, TRUE)
                         ELSE IF ws.value # Str(":")
                         THEN Descent(<<ws.value>> \o ws.vals,
                                      pushVal(stack, [NoToken EXCEPT !.str = w.word,
                                                                     !.position = position]),
                                      out, FALSE)
                         ELSE consumeKeyValue(ws.vals, stack, out, w.word)))

\* The call of _consumeInner at the head of the stack returns arrVals: its
\* caller makes its token of them, and pushes it to the arrVals of the call
\* below or returns it to onNextToken
returnInner(vs, stack, out) ==
    LET token == [stack[1].token EXCEPT !.children = stack[1].arrVals]
    IN IF Len(stack) = 1 THEN Descent(vs, <<>>, Append(out, token), FALSE)
       ELSE Descent(vs, pushVal(Tail(stack), token), out, FALSE)

\* The token { value, position } of a number in an array
plainNumber(n, stack, out) ==
    IF n.threw THEN Descent(n.vals, stack, out, TRUE)
    ELSE Descent(n.vals,
                 pushVal(stack, [NoToken EXCEPT !.kind = "number", !.str = n.word,
                                                !.position = position]),
                 out, FALSE)

\* One iteration of while (val !== endToken) { val = this.next(); ... } in the
\* innermost call of _consumeInner
consumeInnerStep(vs, stack, out) ==
    Const(next(vs, Undefined, Undefined),
          LAMBDA nx :
            IF nx.threw THEN Descent(nx.vals, stack, out, TRUE)
            ELSE IF nx.ret \in {Str("["), Str("{")}
            THEN Descent(nx.vals, <<InnerFrame(nx.ret, <<>>)>> \o stack, out, FALSE)
            ELSE IF nx.ret \in IsQuote THEN consumeQuoted(nx.vals, stack, out)
            ELSE IF nx.ret \in IsDigit
            THEN plainNumber(consumeNumber(nx.vals, nx.ret), stack, out)
            ELSE IF nx.ret = stack[1].endToken THEN returnInner(nx.vals, stack, out)
            ELSE Descent(nx.vals, stack, out, FALSE))

\* _consumeInner(endToken) and the calls nested in it, until the outermost
\* returns or one raises
RECURSIVE consumeInner(_, _, _)
consumeInner(vs, stack, out) ==
    IF stack = <<>> THEN Descent(vs, stack, out, FALSE)
    ELSE Const(consumeInnerStep(vs, stack, out),
               LAMBDA d : IF d.threw THEN d ELSE consumeInner(d.vals, d.stack, d.out))

\* str.replace(/"/g, '')
RECURSIVE unquote(_)
unquote(str) ==
    IF str = <<>> THEN <<>>
    ELSE (IF Head(str) = "\"" THEN <<>> ELSE <<Head(str)>>) \o unquote(Tail(str))

\* obj[key] = value: a new property comes last, an existing one keeps its place
assign(members, key, value) ==
    IF \E i \in 1 .. Len(members) : members[i].key = key
    THEN [i \in 1 .. Len(members) |->
            IF members[i].key = key THEN [key |-> key, value |-> value] ELSE members[i]]
    ELSE Append(members, [key |-> key, value |-> value])

\* The value a token holds when it is not a nested array or object
Scalar(token) ==
    IF token.kind = "string" THEN StringValue(unquote(token.str))
    ELSE [type |-> token.kind, str |-> token.str, items |-> <<>>]

\* The loops of MyJSON.parseObject (asObject) and MyJSON.parseArray over the
\* children of a token: a nested array or object is parsed by the function of
\* its type; in an object, a token whose key is undefined or empty once
\* unquoted adds no property
RECURSIVE parseChildren(_, _, _)
parseChildren(children, asObject, acc) ==
    IF children = <<>> THEN acc
    ELSE LET token == Head(children)
             key == IF token.key = <<>> THEN <<>> ELSE unquote(token.key[1])
             value == IF token.kind = "array" /\ token.type \in {"array", "object"}
                      THEN [type |-> token.type, str |-> <<>>,
                            items |-> parseChildren(token.children, token.type = "object", <<>>)]
                      ELSE Scalar(token)
         IN parseChildren(Tail(children), asObject,
                          IF ~asObject THEN Append(acc, [key |-> <<>>, value |-> value])
                          ELSE IF key # <<>> THEN assign(acc, key, value)
                          ELSE acc)

\* MyJSON.parseObject(objChildren)
parseObject(objChildren) == ObjectValue(parseChildren(objChildren, TRUE, <<>>))

\* MyJSON.parseArray(arrChildren)
parseArray(arrChildren) ==
    [type |-> "array", str |-> <<>>, items |-> parseChildren(arrChildren, FALSE, <<>>)]

\* The fold of MyJSON.parse over the tokens of the tokenizer: it raises when
\* there is no root token or the root holds no array
parse(tkns) ==
    IF tkns = <<>> \/ Head(tkns).kind # "array" \/ Head(tkns).type \notin {"array", "object"}
    THEN [threw |-> TRUE, value |-> StringValue(<<>>)]
    ELSE [threw |-> FALSE,
          value |-> IF Head(tkns).type = "array" THEN parseArray(Head(tkns).children)
                    ELSE parseObject(Head(tkns).children)]

\* const jsonStr = JSON.stringify(json); new JsonTokenizer([...jsonStr])
RtInit ==
    /\ vals \in {spread(stringify(json)) : json \in JsonObjects}
    /\ length = Len(vals)
    /\ tokens = <<>>
    /\ curVal = Undefined
    /\ pc = "idle"
    /\ h = NoHandle
    /\ last = [NoCall EXCEPT !.buffer = vals]
    /\ prev = NoLoop
    /\ errors = <<>>
    /\ ecall = NoErrCall
    /\ regex = NoRegex

\* onNextToken(val): if (/{/.test(val)) return this.tokens.push(this.consumeObject()),
\* and the same with consumeArray() for [
RtHook ==
    /\ pc = "hook"
    /\ LET d == IF curVal \in {Str("{"), Str("[")}
                THEN consumeInner(vals, <<InnerFrame(curVal, <<>>)>>, <<>>)
                ELSE Descent(vals, <<>>, <<>>, FALSE)
       IN /\ vals' = d.vals
          /\ tokens' = IF d.threw THEN tokens ELSE tokens \o d.out
          /\ pc' = IF d.threw THEN "failed" ELSE "done"
          /\ last' = JsonStep("hook", d.threw)
    /\ UNCHANGED <<length, curVal, h, prev, errors, ecall, regex>>

\* The rest of MyJSON.parse once tokenize() has returned, and the
\* JSON.stringify of the test: last.acc is the text of the parsed value
RtParse ==
    /\ pc = "returned"
    /\ LET r == parse(tokens)
       IN last' = [JsonStep("parse", r.threw) EXCEPT
                     !.acc = IF r.threw THEN <<>> ELSE stringify(r.value)]
    /\ pc' = "parsed"
    /\ UNCHANGED <<vals, tokens, length, curVal, h, prev, errors, ecall, regex>>

RtNext ==
    \/ JsonTokenize
    \/ JsonHookReturn
    \/ RtHook
    \/ RtParse

RtSpec == RtInit /\ [][RtNext]_vars

----------------------------------------------------------------------------
(* StringTokenizer: a Tokenizer over the characters of a text with the     *)
(* patterns _whitespaceRegEx, _wordRegEx and _numberRegEx. A pattern is    *)
(* the set of characters it matches. The hook calls consumeWord or         *)
(* consumeNumber on its argument, and patterns are registered before       *)
(* tokenize() or inside the hook.                                          *)

MaxStrLen == 3

MaxRegister == 1

\* The characters of the texts: a letter, a digit, an underscore and a space
StrChars == {Str("a"), Str("1"), Str("_"), Str(" ")}

\* /\s|\n|\t/, /[a-z]/i and /\d/i
DefaultRegex ==
    [whitespace |-> {Str(" ")}, word |-> {Str("a")}, number |-> {Str("1")}, calls |-> 0]

\* The patterns a caller registers: /[\d_]/, /[a-z_]/i and /_/
Registered == {{Str("1"), Str("_")}, {Str("a"), Str("_")}, {Str("_")}}

\* new StringTokenizer(raw, path): super([...raw])
StrInit ==
    /\ vals \in SeqsUpTo(StrChars, MaxStrLen)
    /\ length = Len(vals)
    /\ tokens = <<>>
    /\ curVal = Undefined
    /\ pc = "idle"
    /\ h = NoHandle
    /\ last = [NoCall EXCEPT !.buffer = vals]
    /\ prev = NoLoop
    /\ errors = <<>>
    /\ ecall = NoErrCall
    /\ regex = DefaultRegex

\* A register...Regex(r) call: it returns nothing and touches no field of the
\* Tokenizer
StrRegister(op, r) ==
    /\ pc \in {"idle", "hook"}
    /\ regex.calls < MaxRegister
    /\ last' = [JsonStep(op, FALSE) EXCEPT !.pred = r]
    /\ UNCHANGED <<vals, tokens, length, curVal, pc, h, prev, errors, ecall>>

\* registerWhitespaceRegex(whitespaceRegEx)
registerWhitespaceRegex(whitespaceRegEx) ==
    /\ StrRegister("registerWhitespaceRegex", whitespaceRegEx)
    /\ regex' = [regex EXCEPT !.whitespace = whitespaceRegEx, !.calls = @ + 1]

\* registerWordRegex(wordRegEx)
registerWordRegex(wordRegEx) ==
    /\ StrRegister("registerWordRegex", wordRegEx)
    /\ regex' = [regex EXCEPT !.word = wordRegEx, !.calls = @ + 1]

\* registerNumberRegex(numberRegEx): this._wordRegEx = numberRegEx
registerNumberRegex(numberRegEx) ==
    /\ StrRegister("registerNumberRegex", numberRegEx)
    /\ regex' = [regex EXCEPT !.word = numberRegEx, !.calls = @ + 1]

\* The hook calls consumeWord / consumeNumber on its argument and returns,
\* unless the call raised
StrConsume(op, firstChar, r, ret) ==
    /\ pc = "hook"
    /\ vals' = r.vals
    /\ pc' = IF r.threw THEN "failed" ELSE "done"
    /\ last' = [JsonStep(op, r.threw) EXCEPT
                  !.args = <<firstChar>>, !.acc = r.elms,
                  !.ret = IF r.threw THEN Str("Unexpected end of input.") ELSE ret]
    /\ UNCHANGED <<tokens, length, curVal, h, prev, errors, ecall, regex>>

\* consumeWord(firstChar): this.consume(firstChar).while((char) => this._wordRegEx.test(char))
StrConsumeWord(firstChar) ==
    StrConsume("consumeWord", firstChar,
               consumeThen(vals, <<firstChar>>, "while", regex.word), Undefined)

\* consumeNumber(firstChar): this.consume(firstChar)
\*     .while((char) => this._numberRegEx.test(char)).join('')
StrConsumeNumber(firstChar) ==
    LET r == consumeThen(vals, <<firstChar>>, "while", regex.number)
    IN StrConsume("consumeNumber", firstChar, r, Str(join(r.elms)))

StrNext ==
    \/ JsonTokenize
    \/ JsonHookReturn
    \/ \E r \in Registered : registerWhitespaceRegex(r)
    \/ \E r \in Registered : registerWordRegex(r)
    \/ \E r \in Registered : registerNumberRegex(r)
    \/ StrConsumeWord(curVal)
    \/ StrConsumeNumber(curVal)

StrSpec == StrInit /\ [][StrNext]_vars

----------------------------------------------------------------------------
(* Vocabulary of the properties *)

LoopOps == {"while", "until"}

IsPolicyName(v) == v \in {Str(ob) : ob \in OrphanBehavior}

\* The seed of consume(seed, policy) or consume(seed), as a sequence of 0 or 1
SeedArgs(args) ==
    IF Len(args) = 2 THEN <<args[1]>>
    ELSE IF Len(args) = 1 /\ ~IsPolicyName(args[1]) THEN args
    ELSE <<>>

\* The number of elements of the input that are no longer in vals
Consumed == length - Len(vals)

\* The longest prefix of q whose elements all satisfy p
RECURSIVE LongestPrefix(_, _)
LongestPrefix(q, p) ==
    IF q = <<>> \/ Head(q) \notin p THEN <<>>
    ELSE <<Head(q)>> \o LongestPrefix(Tail(q), p)

\* The latest call is consume(...).while(p) or consume(...).until(p)
ChainedLoop == last.op \in LoopOps /\ last.chained

----------------------------------------------------------------------------
(* Properties *)

\* C1: in every reachable state position equals length - |vals|, the number of
\* input elements removed from the buffer and not put back
C1_PositionIsConsumed == position = Consumed

\* C2: a next(...) call, and a consume(...) / while / until call whose handle
\* has the policy CONSUME_ORPHAN or DISCARD_ORPHAN, never decreases position
\* and increases it by exactly the number of elements the call removed from vals
C2_Call ==
    \/ last'.op = "next"
    \/ last'.op = "consume" /\ h'.live /\ h'.orphanBehavior # "UNSHIFT_ORPHAN"
    \/ last'.op \in LoopOps /\ h.orphanBehavior # "UNSHIFT_ORPHAN"

C2_PositionAdvances ==
    [][C2_Call => /\ position' >= position
                  /\ position' = position + (Len(vals) - Len(vals'))]_vars

\* C3: next(count) with count >= 1 on a buffer of at least count elements
\* returns the element at index count-1 and removes exactly the first count
\* elements, whatever their values
C3_NextReturnsCountth ==
    (last.op = "next" /\ last.count >= 1 /\ Len(last.preVals) >= last.count)
        => /\ ~last.threw
           /\ last.ret = last.preVals[last.count]
           /\ vals = SubSeq(last.preVals, last.count + 1, Len(last.preVals))

\* C4: next(N) with N >= 1 on a buffer of fewer than N elements raises and
\* leaves vals empty, tokens and length unchanged
C4_NextEndOfInput ==
    (last.op = "next" /\ last.count >= 1 /\ Len(last.preVals) < last.count)
        => /\ last.threw
           /\ vals = <<>>
           /\ tokens = last.preTokens
           /\ length = last.preLength

\* The loop of a while(p) / until(p) call stopped on the element x because the
\* predicate said so: p(x) is false for while, true for until
StoppedOn(op, p, x) ==
    /\ x # Undefined
    /\ (op = "while" => x \notin p)
    /\ (op = "until" => x \in p)

\* C5: after consume(seed?, UNSHIFT_ORPHAN).while(p) / .until(p), or the same
\* with the default policy, stopped on an orphan x, the next next() returns x,
\* leaves in vals the elements that followed x, and position is what it was
\* when the loop stopped
C5_PutBackRoundTrip ==
    (/\ last.op = "next" /\ last.count = 1
     /\ prev.op \in LoopOps /\ prev.chained
     /\ prev.orphanBehavior = "UNSHIFT_ORPHAN"
     /\ StoppedOn(prev.op, prev.pred, prev.exitVal))
        => /\ ~last.threw
           /\ last.ret = prev.exitVal
           /\ vals = prev.exitVals
           /\ position = prev.exitPosition

\* C6: for the buffer, seed and predicate of a consume(...).while/until call
\* whose loop stops at an orphan x followed by rest, the accumulator under
\* CONSUME_ORPHAN is the one under DISCARD_ORPHAN with x appended, the one
\* under UNSHIFT_ORPHAN equals the one under DISCARD_ORPHAN, and vals is
\* [x] ++ rest under UNSHIFT_ORPHAN and rest under the other two
C6_OrphanPolicies ==
    ChainedLoop =>
        LET run(ob) == consumeThen(last.buffer, SeedArgs(last.args) \o <<Str(ob)>>,
                                   last.op, last.pred)
            c == run("CONSUME_ORPHAN")
            d == run("DISCARD_ORPHAN")
            u == run("UNSHIFT_ORPHAN")
            x == last.exitVal
            rest == last.exitVals
        IN StoppedOn(last.op, last.pred, x)
            => /\ c.elms = Append(d.elms, x)
               /\ u.elms = d.elms
               /\ u.vals = <<x>> \o rest
               /\ c.vals = rest
               /\ d.vals = rest

\* C7: consume(...).while(p) returns, between the seed and the orphan, exactly
\* the longest prefix of the buffer whose elements all satisfy p
C7_WhileLongestPrefix ==
    (ChainedLoop /\ last.op = "while") =>
        LET prefix == LongestPrefix(last.buffer, last.pred)
            orphan == IF Len(prefix) < Len(last.buffer)
                      THEN <<last.buffer[Len(prefix) + 1]>> ELSE <<>>
        IN \/ last.acc = last.preElms \o prefix
           \/ last.acc = last.preElms \o prefix \o orphan

\* C8: the array returned by consume(seed, policy).while/until has seed as its
\* first element, followed by elements of the buffer in input order
C8_SeedFirst ==
    (ChainedLoop /\ Len(last.args) = 2)
        => /\ last.acc # <<>>
           /\ Head(last.acc) = last.args[1]
           /\ Tail(last.acc) = SubSeq(last.buffer, 1, Len(last.acc) - 1)

\* C9: consume raises only in its seedless form on an empty buffer;
\* consume(seed, policy) on an empty buffer raises nothing and its
\* while/until return [seed] and leave vals empty
C9_SeededConsumeOnEmpty ==
    /\ (last.op = "consume" /\ last.threw)
            => (SeedArgs(last.args) = <<>> /\ last.preVals = <<>>)
    /\ (ChainedLoop /\ Len(last.args) = 2 /\ last.buffer = <<>>)
            => (last.acc = <<last.args[1]>> /\ vals = <<>>)

\* C10: whenever tokenize() returns normally, vals is empty and the value
\* returned is the instance itself
C10_TokenizeExhausts ==
    pc = "returned" => (vals = <<>> /\ last.ret = This)

\* C11: every element that the loop of tokenize() removes from the front of
\* vals is passed to onNextToken, once and in input order; the argument of
\* onNextToken changes at no other step, so an element removed inside the hook
\* is never passed; and an orphan that while/until stopped on under
\* UNSHIFT_ORPHAN at the end of a hook invocation is the argument of the next
\* invocation
C11_HookPerElement ==
    [][/\ (last'.op = "tokenize" /\ vals # <<>>)
            => (pc' = "hook" /\ curVal' = Head(vals) /\ vals' = Tail(vals))
       /\ (curVal' # curVal) => last'.op = "tokenize"
       /\ (/\ last'.op = "tokenize"
           /\ last.op \in LoopOps
           /\ h.orphanBehavior = "UNSHIFT_ORPHAN"
           /\ StoppedOn(last.op, last.pred, last.exitVal))
            => (pc' = "hook" /\ curVal' = last.exitVal)]_vars

\* C12: a failure raised by the hook, or by a next/consume call inside it,
\* leaves tokenize() with that failure: the failing call changes neither
\* tokens nor the hook's argument, and after it no step is taken, so the hook
\* is not invoked again and vals and tokens stay as the failure left them
C12_FailurePropagates ==
    [][/\ ~last.threw
       /\ last'.threw => (pc' = "failed" /\ tokens' = tokens /\ curVal' = curVal)]_vars

\* A next() inside the hook raised after a token was pushed, and tokenize()
\* has failed
C12_Witness ==
    /\ pc = "failed"
    /\ last.op \in {"next", "consume", "throw"}
    /\ last.threw
    /\ tokens # <<>>
    /\ vals # <<>>

\* The values of the tokens, in order
TokenValues == [i \in 1 .. Len(tokens) |-> tokens[i].value]

\* C13: tokenize() on the seven characters of {"a":1} with the hook of the
\* end-to-end specification never raises, and when it has returned vals is
\* empty and the token values are exactly {, "a", :, 1, } in that order
C13_EndToEnd ==
    last.buffer = JsonText
        => /\ pc # "failed"
           /\ pc = "returned"
                => /\ vals = <<>>
                   /\ TokenValues = <<Str("{"), Str("\"a\""), Str(":"), Str("1"), Str("}")>>

\* tokenize() has returned on the input {"a":1} with five tokens
C13_Witness ==
    /\ last.buffer = JsonText
    /\ pc = "returned"
    /\ Len(tokens) = 5

\* The latest call is prettyPrint() on an error whose raw text is raw and
\* whose position is at
Printed(raw, at) ==
    /\ ecall.op = "prettyPrint"
    /\ errors[ecall.self].raw = <<raw>>
    /\ errors[ecall.self].position = at

\* The text has the fault line ab<TAB>cd directly followed by a caret line
\* that keeps the tab at its column and has the caret in the column of c
CaretUnderC(text) ==
    LET lines == split(text, "\n")
    IN \E i \in 1 .. Len(lines) - 1 :
          /\ lines[i] = <<"a", "b", "\t", "c", "d">>
          /\ lines[i + 1] = <<" ", " ", "\t", "^">>

\* C15 as stated: for the raw text ab<TAB>cd<NL>ef and the offset 4, the caret
\* line of prettyPrint() keeps the tab at its column and has the caret under c
C15_CaretAtIndex4 == Printed(TabText, 4) => CaretUnderC(ecall.out)

\* C15: for the raw text ab<TAB>cd<NL>ef and the offset 3, the index of c, the
\* caret line of prettyPrint() keeps the tab at its column and has the caret
\* under c
C15_CaretUnderC == Printed(TabText, 3) => CaretUnderC(ecall.out)

\* prettyPrint() was called on the error at c of ab<TAB>cd<NL>ef
C15_Witness == Printed(TabText, 3) /\ ecall.out # <<>>

\* The index in raw of the last line break among its first at characters, 0
\* when there is none: the fault line starts right after it
BreakBefore(raw, at) == lastIndexOf(SubSeq(raw, 1, at), "\n") + 1

\* The index in raw of the first line break at or after the offset at, one
\* past the text when there is none: the fault line ends right before it
BreakAfter(raw, at) ==
    LET i == indexOf(SubSeq(raw, at + 1, Len(raw)), "\n")
    IN IF i = -1 THEN Len(raw) + 1 ELSE at + i + 1

\* The line of raw that contains the offset at
FaultLine(raw, at) == SubSeq(raw, BreakBefore(raw, at) + 1, BreakAfter(raw, at) - 1)

\* The complete lines of raw before and after the fault line
LinesBefore(raw, at) == SubSeq(raw, 1, BreakBefore(raw, at) - 1)

LinesAfter(raw, at) == SubSeq(raw, BreakAfter(raw, at) + 1, Len(raw))

\* The caret line for the offset at
CaretLine(raw, at) ==
    [i \in 1 .. at - BreakBefore(raw, at) |-> caretChar(raw[BreakBefore(raw, at) + i])]
        \o <<"^">>

HasInk(text) == \E i \in 1 .. Len(text) : ~isWhitespace(text[i])

\* The latest call is prettyPrint() on an error with a raw text and an offset
\* inside it or at its end
PrintedInRange ==
    /\ ecall.op = "prettyPrint"
    /\ errors[ecall.self].raw # <<>>
    /\ errors[ecall.self].position \in 0 .. Len(errors[ecall.self].raw[1])

\* C16: prettyPrint() returns header, two line breaks, the complete lines
\* before the fault line, a line break, the whole fault line, a line break,
\* the caret line and, if and only if the lines after the fault line contain
\* a non-whitespace character, a line break and those lines; so nothing of
\* the fault line comes after the caret line
C16_ExcerptLayout ==
    PrintedInRange =>
        LET this == errors[ecall.self]
            raw == this.raw[1]
            at == this.position
            header == formatError(this.message, this.raw, at, this.path).message
        IN ecall.out = header \o <<"\n", "\n">>
                        \o LinesBefore(raw, at) \o <<"\n">>
                        \o FaultLine(raw, at) \o <<"\n">>
                        \o CaretLine(raw, at)
                        \o (IF HasInk(LinesAfter(raw, at))
                            THEN <<"\n">> \o LinesAfter(raw, at) ELSE <<>>)

\* The first line of a text
FirstLine(text) == Head(split(text, "\n"))

\* 'SyntaxError: ' + message
PlainHeader(message) == SyntaxErrorLabel \o <<":", " ">> \o message

\* path + ':' + row + ':' + column + ' - SyntaxError: ' + message, with the
\* row and column that _highlightErr computes for raw and the offset at
PathHeader(path, raw, at, message) ==
    path \o <<":">> \o highlightErr(raw, at).row \o <<":">> \o highlightErr(raw, at).column
         \o <<" ", "-", " ">> \o PlainHeader(message)

\* The latest call is prettyPrint() on an error with a raw text
PrintedText == ecall.op = "prettyPrint" /\ errors[ecall.self].raw # <<>>

\* C17 as stated: the header of prettyPrint() is path:row:column - SyntaxError:
\* message when a path was given, the empty path included, and SyntaxError:
\* message when no path was given
C17_HeaderPathGiven ==
    PrintedText =>
        LET this == errors[ecall.self]
        IN FirstLine(ecall.out) =
              IF this.path # <<>>
              THEN PathHeader(this.path[1], this.raw[1], this.position, this.message)
              ELSE PlainHeader(this.message)

\* C17: the header of prettyPrint() is path:row:column - SyntaxError: message
\* when a non-empty path was given, and SyntaxError: message, with no row or
\* column, when the path is absent or the empty string
C17_HeaderFormat ==
    PrintedText =>
        LET this == errors[ecall.self]
        IN FirstLine(ecall.out) =
              IF this.path # <<>> /\ this.path[1] # <<>>
              THEN PathHeader(this.path[1], this.raw[1], this.position, this.message)
              ELSE PlainHeader(this.message)

\* prettyPrint() was called on an error with a non-empty path and an offset
\* on the second line of its raw text
C17_Witness ==
    /\ PrintedText
    /\ errors[ecall.self].path = << <<"p">> >>
    /\ errors[ecall.self].raw = <<LinesText>>
    /\ errors[ecall.self].position = 3

\* sub occurs in text
Contains(text, sub) ==
    \E i \in 0 .. Len(text) - Len(sub) : SubSeq(text, i + 1, i + Len(sub)) = sub

\* C18: prettyPrint() returns a string that contains the message, whatever
\* the raw text and the offset, offsets before and past the text included;
\* when the excerpt cannot be built (raw is not a string) it returns the
\* message alone, and otherwise a header, two line breaks and an excerpt
C18_PrettyPrintTotal ==
    ecall.op = "prettyPrint" =>
        LET this == errors[ecall.self]
        IN /\ Contains(ecall.out, this.message)
           /\ this.raw = <<>> => ecall.out = this.message
           /\ this.raw # <<>> => Contains(ecall.out, this.message \o <<"\n", "\n">>)

\* prettyPrint() was called on an error whose offset is past the end of its
\* raw text
C18_Witness ==
    /\ PrintedText
    /\ errors[ecall.self].position > Len(errors[ecall.self].raw[1])

\* C19: fork(message, position?) returns a TokenizerError that did not exist
\* before, with the raw and path of the receiver, the given message, and the
\* given position, an explicit 0 included, or the receiver's position when
\* none is given
C19_ForkResult ==
    [][ecall'.op = "fork" =>
         /\ ecall'.ret \in 1 .. Len(errors')
         /\ ecall'.ret \notin 1 .. Len(errors)
         /\ LET this == errors[ecall'.self]
                forked == errors'[ecall'.ret]
            IN /\ forked.raw = this.raw
               /\ forked.path = this.path
               /\ forked.message = ecall'.message
               /\ forked.position = IF ecall'.position # <<>>
                                    THEN ecall'.position[1]
                                    ELSE this.position]_vars

\* fork(message, 0) was called on an error whose position is not 0
C19_Witness ==
    /\ ecall.op = "fork"
    /\ ecall.position = <<0>>
    /\ errors[ecall.self].position # 0
    /\ errors[ecall.ret].position = 0

\* C20: fork leaves every error that existed before it, the receiver
\* included, as it was; and a later assignment to the message or the position
\* of one error, the original or the fork, leaves every other error as it was
C20_ForkIndependence ==
    [][/\ ecall'.op = "fork"
            => \A i \in 1 .. Len(errors) : errors'[i] = errors[i]
       /\ ecall'.op \in {"setMessage", "setPosition"}
            => /\ Len(errors') = Len(errors)
               /\ \A i \in 1 .. Len(errors) : i # ecall'.self => errors'[i] = errors[i]]_vars

\* After a fork, the message of the original was assigned and the fork still
\* has the message it was given
C20_Witness ==
    /\ Len(errors) = 2
    /\ ecall.op = "setMessage"
    /\ ecall.self = 1
    /\ errors[1].message = <<"x">>
    /\ errors[2].message = <<"n">>

\* The characters of the text that tokenize() was called on
InputText == joinChars(last.buffer)

\* C14: tokenizing a compact JSON text of an object whose values are strings,
\* arrays of strings and nested objects raises no failure, and the value that
\* MyJSON.parse folds from the tokens has that same text as its JSON.stringify
C14_RoundTrip ==
    /\ pc # "failed"
    /\ pc = "parsed" => (~last.threw /\ last.acc = InputText)

\* v => !p(v), for a predicate p on the elements of the buffer
Not(p) == Elems \ p

\* The latest call is an until(p) that appended to the accumulator and
\* stopped on an element that p accepts
UntilStopped ==
    /\ last.op = "until"
    /\ Len(last.acc) > Len(last.preElms)
    /\ StoppedOn("until", last.pred, last.exitVal)

\* C21: until(p) returns the accumulator and leaves the vals that while(not p)
\* returns and leaves from the same state, and conversely: for the handle
\* state a while/until call started from, and for the buffer and arguments of
\* the consume(...) it is chained to
C21_UntilMirrorsWhile ==
    /\ last.op = "until"
        => LET w == consumeWhile(last.preVals, last.preVal, last.preElms,
                                 h.orphanBehavior, Not(last.pred))
           IN w.elms = last.acc /\ w.vals = vals
    /\ last.op = "while"
        => LET u == consumeUntil(last.preVals, last.preVal, last.preElms,
                                 h.orphanBehavior, Not(last.pred))
           IN u.elms = last.acc /\ u.vals = vals
    /\ ChainedLoop
        => LET other == IF last.op = "until" THEN "while" ELSE "until"
               m == consumeThen(last.buffer, last.args, other, Not(last.pred))
           IN ~m.threw /\ m.elms = last.acc /\ m.vals = vals

\* consume(seed, policy).until(p) consumed elements up to one that p accepts
C21_Witness ==
    /\ ChainedLoop
    /\ UntilStopped
    /\ Len(last.args) = 2
    /\ vals # <<>>

\* The number of line breaks in a text
CountBreaks(text) == Cardinality({i \in 1 .. Len(text) : text[i] = "\n"})

\* The number of characters of the fault line that precede the offset at
Column(raw, at) == at - BreakBefore(raw, at)

\* The latest call is prettyPrint() on an error with a raw text, an offset
\* inside it or at its end, and a non-empty path, so that the header shows
\* the row and the column
PrintedRow == PrintedInRange /\ errors[ecall.self].path \notin {<<>>, << <<>> >>}

\* C22: for a raw text and an offset with 0 <= offset <= |raw|, the row that
\* prettyPrint() computes, and shows in the header, is 1 + the number of line
\* breaks in raw[0 .. offset)
C22_RowCountsBreaks ==
    PrintedRow =>
        LET this == errors[ecall.self]
            raw == this.raw[1]
            at == this.position
            row == toString(1 + CountBreaks(SubSeq(raw, 1, at)))
        IN /\ highlightErr(raw, at).row = row
           /\ FirstLine(ecall.out) =
                this.path[1] \o <<":">> \o row \o <<":">> \o toString(Column(raw, at))
                    \o <<" ", "-", " ">> \o PlainHeader(this.message)

\* The k-th line of the excerpt that prettyPrint() returned, counted from the
\* fault line (k = 0): the excerpt follows the header and an empty line, and
\* starts with the complete lines before the fault line
ExcerptLine(k) ==
    LET this == errors[ecall.self]
        lines == split(ecall.out, "\n")
        i == 2 + Len(split(LinesBefore(this.raw[1], this.position), "\n")) + 1 + k
    IN IF i <= Len(lines) THEN lines[i] ELSE <<>>

\* C23: the fault line printed in the excerpt is the complete line of raw
\* that contains the offset, from the character after the last line break
\* before the offset up to the first line break at or after it, or to the end
\* of raw when no line break follows
C23_FaultLineComplete ==
    PrintedInRange =>
        ExcerptLine(0) = FaultLine(errors[ecall.self].raw[1], errors[ecall.self].position)

C25_RegisterNumberRegex ==
    [][/\ last'.op = "registerNumberRegex"
            => (regex'.word = regex.word /\ regex'.whitespace = regex.whitespace)
       /\ (last.op = "registerNumberRegex" /\ last'.op = "consumeNumber")
            => LET r == consumeThen(vals, last'.args, "while", last.pred)
               IN /\ last'.threw = r.threw
                  /\ last'.acc = r.elms
                  /\ ~r.threw => last'.ret = Str(join(r.elms))
                  /\ vals' = r.vals]_vars

\* Every element of the buffer is truthy
AllTruthy(q) == \A i \in 1 .. Len(q) : Truthy(q[i])

\* The accumulator without the seed of consume(seed, policy), when it starts
\* with it
WithoutSeed(acc, args) ==
    IF SeedArgs(args) # <<>> /\ acc # <<>> /\ Head(acc) = SeedArgs(args)[1]
    THEN Tail(acc) ELSE acc

\* The latest call is the one while/until call of a consume(...).while(p) or
\* consume(...).until(p) on a buffer of truthy elements
SingleConsume == ChainedLoop /\ AllTruthy(last.buffer)

\* C26: for consume(seed?, policy).while/until on a buffer B of truthy
\* elements, the accumulator without its seed followed by vals is B under
\* CONSUME_ORPHAN and UNSHIFT_ORPHAN; under DISCARD_ORPHAN it is B without the
\* orphan, which sat between the two, or B when the loop exhausted the input
C26_Conservation ==
    SingleConsume =>
        LET acc == WithoutSeed(last.acc, last.args)
            orphan == IF last.exitVal = Undefined THEN <<>> ELSE <<last.exitVal>>
        IN IF h.orphanBehavior = "DISCARD_ORPHAN"
           THEN acc \o orphan \o vals = last.buffer
           ELSE acc \o vals = last.buffer

\* consume(seed, CONSUME_ORPHAN).while/until on a buffer of two truthy
\* elements appended one and stopped on the other
C26_Witness ==
    /\ SingleConsume
    /\ h.orphanBehavior = "CONSUME_ORPHAN"
    /\ Len(last.args) = 2
    /\ Len(last.buffer) = 2
    /\ Len(last.acc) = 3
    /\ StoppedOn(last.op, last.pred, last.exitVal)

\* while/until has been called at most once on the handle the hook holds
SingleUse == h.calls <= 1

\* tokenize() has returned or raised
Finished == pc \in {"returned", "failed"}

\* A call made by the hook leaves vals no longer than the call found it,
\* counting consume(...).while/until as one call: the put-back of
\* UNSHIFT_ORPHAN re-inserts at most the element that consume removed. An
\* iteration of the loop of tokenize() removes an element unless vals is empty
NoGrowth ==
    /\ last.op \in {"next", "consume", "push", "throw"} => Len(vals) <= Len(last.preVals)
    /\ ChainedLoop => Len(vals) <= Len(last.buffer)
    /\ last.op = "tokenize" => (Len(vals) < Len(last.preVals) \/ last.preVals = <<>>)

\* C27: on an input of truthy elements, with a hook that terminates and calls
\* while/until at most once on each handle, no call of the hook makes vals
\* longer, each iteration of the loop of tokenize() removes an element, and
\* tokenize() eventually returns or raises
C27_TokenizeTerminates ==
    []SingleUse =>
        /\ <>Finished
        /\ []NoGrowth

\* tokenize() has returned on an input of MaxLen elements after the hook
\* pushed a token
C27_Witness ==
    /\ pc = "returned"
    /\ length = MaxLen
    /\ last.op = "tokenize"
    /\ tokens # <<>>

\* The latest call is a further while/until on a handle whose previous
\* while/until stopped on an orphan and put it back (UNSHIFT_ORPHAN)
ReusedAfterPutBack ==
    /\ last.op \in LoopOps
    /\ ~last.chained
    /\ h.orphanBehavior = "UNSHIFT_ORPHAN"
    /\ Truthy(last.preVal)

\* What the latest while/until appended to the accumulator of its handle
Appended == SubSeq(last.acc, Len(last.preElms) + 1, Len(last.acc))

\* C28: vals is never longer than the input, and a second while/until on a
\* handle whose first call put its orphan back neither inserts that orphan
\* into vals again nor appends an element that is still in vals: what it
\* appended and what it left in vals are together the elements it found in
\* vals, each once
C28_HandleReuse ==
    /\ Len(vals) <= length
    /\ ReusedAfterPutBack
        => /\ Len(vals) <= Len(last.preVals)
           /\ Appended \o vals = last.preVals

\* The latest call is next(count) with count <= 0 on a buffer of truthy
\* elements
NextNotPositive == last.op = "next" /\ last.count <= 0 /\ AllTruthy(last.preVals)

IsSuffix(q, r) == Len(q) <= Len(r) /\ q = SubSeq(r, Len(r) - Len(q) + 1, Len(r))

\* C30: consume(...) removes the front element of vals when it is called and
\* keeps it in the handle, returning no element; on an empty buffer consume
\* itself raises; while/until never raise; and a step that drops a handle on
\* which while/until was never called puts nothing back into vals
C30_EagerLookahead ==
    [][/\ last'.op = "consume"
            => /\ IF vals = <<>> THEN last'.threw /\ vals' = <<>> ELSE vals' = Tail(vals)
               /\ ~last'.threw
                    => /\ h'.live /\ h'.val = Head(vals)
                       /\ last'.ret = Undefined
                       /\ \A i \in 1 .. Len(h'.elms) : h'.elms[i] \in Seeds
       /\ last'.op \in LoopOps => (~last'.threw /\ pc' # "failed")
       /\ (h.live /\ h.calls = 0 /\ last'.op \notin LoopOps)
            => IsSuffix(vals', vals)]_vars

\* consume(seed, policy) was called on a buffer of two elements: the handle
\* holds the first, on which neither while nor until has been called, and
\* vals the second
C30_Witness ==
    /\ last.op = "consume"
    /\ ~last.threw
    /\ Len(last.args) = 2
    /\ Len(last.preVals) = 2
    /\ h.live /\ h.calls = 0
    /\ h.val = Head(last.preVals)
    /\ vals = Tail(last.preVals)

====
